---- MODULE Spec2Model ----
(***************************************************************************)
(* Model of the answer_factory backend.                                    *)
(*                                                                         *)
(*   program = "app"     backend/app.py: the in-memory rag_storage and its *)
(*                       handlers.                                         *)
(*   program = "routes"  backend/routes/*.py over utils/chroma.py,         *)
(*                       utils/processing.py and utils/model.py.           *)
(*   program = "chunker" the chunking code of both programs applied to     *)
(*                       inputs drawn from bounded sets (SpecChunk).       *)
(*                                                                         *)
(* Python strings are sequences of tokens (TLA+ strings); a single         *)
(* character is a one-character token.                                     *)
(***************************************************************************)
EXTENDS Integers, Sequences, FiniteSets, TLC

VARIABLES
    program,     \* which program this behaviour is a run of
    api_key,     \* app.py: truthiness of openai.api_key (set at import)
    chunks,      \* app.py: rag_storage["chunks"]
    metadata,    \* app.py: rag_storage["metadata"]
    chunk_ids,   \* history: creation stamp <<call, i>> of each chunks[k]
    meta_ids,    \* history: creation stamp <<call, i>> of each metadata[k]
    clock,       \* number of ingestion calls begun; the reading of datetime.now()
    collection,  \* utils/chroma.py: documents of the "educational_content" collection
    ct,          \* frame of the running chunk_text call (processing.py)
    pending,     \* app.py: the upload_pdf calls suspended at `await file.read()`
    last         \* the handler call that completed last: op, request, response

vars == <<program, api_key, chunks, metadata, chunk_ids, meta_ids, clock,
          collection, ct, pending, last>>

storeVars == <<chunks, metadata, chunk_ids, meta_ids, clock>>

-----------------------------------------------------------------------------
(* Bounds *)

MaxLen == 3        \* longest text drawn for the chunker
MaxNeg == 1        \* chunk_size / chunk_overlap are drawn from -MaxNeg up
MaxParam == 3      \* largest chunk_size / chunk_overlap drawn
MaxIter == 4       \* cap on the iterations of a chunk_text loop that makes no progress
MaxStore == 7      \* cap on len(rag_storage["chunks"])
MaxClock == 2      \* cap on the number of ingestion calls
MaxDocs == 4       \* cap on the number of documents in the collection

Alphabet == {"a", "b", " "}

-----------------------------------------------------------------------------
(* Python primitives *)

Min(a, b) == IF a <= b THEN a ELSE b

Max(a, b) == IF a >= b THEN a ELSE b

\* a // b for b # 0 (floor division)
PyFloorDiv(a, b) == IF b > 0 THEN a \div b ELSE (0 - a) \div (0 - b)

\* ceil(a / b) for a >= 0, b > 0
CeilDiv(a, b) == (a + b - 1) \div b

\* index normalisation of a slice bound
PyClamp(i, n) == IF i < 0 THEN Max(i + n, 0) ELSE Min(i, n)

\* s[a:b]
PySlice(s, a, b) ==
    LET lo == PyClamp(a, Len(s))
        hi == PyClamp(b, Len(s))
    IN  IF lo < hi THEN SubSeq(s, lo + 1, hi) ELSE << >>

\* len(range(0, stop, step)) for step # 0
PyRangeLen(stop, step) ==
    IF step > 0 THEN (IF stop > 0 THEN CeilDiv(stop, step) ELSE 0)
    ELSE (IF stop < 0 THEN CeilDiv(0 - stop, 0 - step) ELSE 0)

\* list(range(0, stop, step)) for step # 0
PyRange(stop, step) == [k \in 1..PyRangeLen(stop, step) |-> (k - 1) * step]

RECURSIVE LStrip(_)
LStrip(s) == IF s # << >> /\ Head(s) = " " THEN LStrip(Tail(s)) ELSE s

RECURSIVE RStrip(_)
RStrip(s) ==
    IF s # << >> /\ s[Len(s)] = " " THEN RStrip(SubSeq(s, 1, Len(s) - 1)) ELSE s

\* s.strip()
PyStrip(s) == RStrip(LStrip(s))

RECURSIVE Concat(_)
\* "".join(ss)
Concat(ss) == IF ss = << >> THEN << >> ELSE Head(ss) \o Concat(Tail(ss))

IsPrefix(s, t) == Len(s) <= Len(t) /\ SubSeq(t, 1, Len(s)) = s

SeqsUpTo(S, n) == UNION {[1..k -> S] : k \in 0..n}

-----------------------------------------------------------------------------
(* utils/processing.py: chunk_text, one loop iteration per step *)

NoCall == [chunks |-> << >>, pc |-> "idle", caller |-> "none", text |-> << >>,
           chunk_size |-> 0, overlap |-> 0, start |-> 0]

\* entry of chunk_text: chunks = [], start = 0
ChunkTextCall(caller, text, chunk_size, overlap) ==
    [chunks |-> << >>, pc |-> "loop", caller |-> caller, text |-> text,
     chunk_size |-> chunk_size, overlap |-> overlap, start |-> 0]

\* `start += chunk_size - overlap` with the step left out
ChunkTextStrideNoOverlap(f) == f.start + f.chunk_size

\* start += chunk_size - overlap
ChunkTextStride(f) == f.start + (f.chunk_size - f.overlap)

\* body of `while start < text_length`
ChunkTextBody(f) ==
    [f EXCEPT !.chunks = Append(f.chunks,
                                PySlice(f.text, f.start, f.start + f.chunk_size)),
              !.start = ChunkTextStride(f)]

ChunkTextIter ==
    /\ ct.pc = "loop"
    /\ ct.start < Len(ct.text)
    /\ Len(ct.chunks) < MaxIter
    /\ ct' = ChunkTextBody(ct)
    /\ UNCHANGED <<program, pending, api_key, storeVars, collection, last>>

\* loop exit in the chunker program: `return chunks`
ChunkTextReturn ==
    /\ program = "chunker"
    /\ ct.pc = "loop"
    /\ ~(ct.start < Len(ct.text))
    /\ ct' = [ct EXCEPT !.pc = "done"]
    /\ UNCHANGED <<program, pending, api_key, storeVars, collection, last>>

-----------------------------------------------------------------------------
(* Values *)

\* Python None where a string is expected
None == <<"<None>">>

\* truthiness of an Optional[str]
Truthy(v) == v # None /\ v # << >>

\* f"{v}"
Str(v) == IF v = None THEN <<"None">> ELSE v

PdfChunkBytes == 5000   \* app.py: file_size // 5000
TopChunks == 5          \* app.py: rag_storage["chunks"][:5]
PreviewLimit == 10      \* app.py: [...][:10]
QueryResults == 5       \* chroma.py: n_results = 5
ModelChunks == 3        \* model.py: chunks[:3]

NoEnv == [api |-> "none", url_status |-> "none", query |-> "none", rank |-> 0,
          add |-> "none"]

NoLast == [op |-> "none", req |-> << >>, env |-> NoEnv, resp |-> << >>,
           sent |-> << >>, reads |-> << >>]

Done(op, req, env, resp) ==
    [op |-> op, req |-> req, env |-> env, resp |-> resp, sent |-> << >>,
     reads |-> << >>]

\* raise HTTPException(status_code=500, detail=str(e))
HttpError(detail) == [detail |-> detail, http |-> 500]

-----------------------------------------------------------------------------
(* app.py: upload_text *)

\* the metadata dict of one text chunk; f"{i // chunk_size + 1}" needs chunk_size # 0
TextMetadata(req, i, now) ==
    [type |-> "text", title |-> req.title, author |-> req.author,
     source |-> req.source,
     page |-> ToString(PyFloorDiv(i, req.chunk_size) + 1),
     upload_time |-> now]

\* one iteration of the loop, with insert(0, ...) in place of append(...)
UploadTextIterPrepend(req, i, k, now, acc) ==
    LET chunk == PySlice(req.text, i, i + req.chunk_size)
        a1 == [acc EXCEPT !.local = Append(@, chunk),
                          !.chunks = <<chunk>> \o @,
                          !.chunk_ids = <<<<now, k>>>> \o @]
    IN  IF req.chunk_size = 0
        THEN [a1 EXCEPT !.error = "ZeroDivisionError"]
        ELSE [a1 EXCEPT !.metadata = <<TextMetadata(req, i, now)>> \o @,
                        !.meta_ids = <<<<now, k>>>> \o @]

\* one iteration of `for i in range(...)`: both appends, the second after the
\* metadata dict has been built
UploadTextIter(req, i, k, now, acc) ==
    LET chunk == PySlice(req.text, i, i + req.chunk_size)
        a1 == [acc EXCEPT !.local = Append(@, chunk),
                          !.chunks = Append(@, chunk),
                          !.chunk_ids = Append(@, <<now, k>>)]
    IN  IF req.chunk_size = 0
        THEN [a1 EXCEPT !.error = "ZeroDivisionError"]
        ELSE [a1 EXCEPT !.metadata = Append(@, TextMetadata(req, i, now)),
                        !.meta_ids = Append(@, <<now, k>>)]

RECURSIVE UploadTextLoop(_, _, _, _, _)
\* the for loop over idxs[k..], left at the first exception
UploadTextLoop(req, idxs, k, now, acc) ==
    IF k > Len(idxs) \/ acc.error # "none" THEN acc
    ELSE UploadTextLoop(req, idxs, k + 1, now,
                        UploadTextIter(req, idxs[k], k, now, acc))

Store(c, m, ci, mi) ==
    [chunks |-> c, metadata |-> m, chunk_ids |-> ci, meta_ids |-> mi,
     local |-> << >>, error |-> "none"]

\* the try block of upload_text run on the store st
UploadTextRun(req, now, st) ==
    LET step == req.chunk_size - req.chunk_overlap
    IN  IF step = 0 THEN [st EXCEPT !.error = "ValueError"]
        ELSE UploadTextLoop(req, PyRange(Len(req.text), step), 1, now, st)

UploadTextResponse(req, run) ==
    IF run.error # "none" THEN HttpError(run.error)
    ELSE [metadata |-> [title |-> req.title, author |-> req.author],
          http |-> 200, status |-> "success",
          message |-> <<"Texto '">> \o Str(req.title) \o <<"' procesado correctamente">>,
          chunks_created |-> Len(run.local)]

TextRequest(text, chunk_size, chunk_overlap, title) ==
    [text |-> text, chunk_size |-> chunk_size, title |-> title,
     author |-> <<"Autor desconocido">>, source |-> <<"Texto plano">>,
     chunk_overlap |-> chunk_overlap]

UploadText(req) ==
    /\ program \in {"app", "chunker"}
    /\ clock < MaxClock
    /\ LET run == UploadTextRun(req, clock + 1,
                                Store(chunks, metadata, chunk_ids, meta_ids))
       IN  /\ Len(run.chunks) <= MaxStore
           /\ chunks' = run.chunks
           /\ metadata' = run.metadata
           /\ chunk_ids' = run.chunk_ids
           /\ meta_ids' = run.meta_ids
           /\ last' = Done("upload_text", req, NoEnv, UploadTextResponse(req, run))
    /\ clock' = clock + 1
    /\ UNCHANGED <<program, pending, api_key, collection, ct>>

-----------------------------------------------------------------------------
(* app.py: upload_url, upload_pdf, clear_rag, rag_status, health_check *)

UrlRequest(url, title) == [title |-> title, author |-> None, url |-> url]

\* request.title or f"Contenido de {request.url}"
SimulatedTitle(req) ==
    IF Truthy(req.title) THEN req.title ELSE <<"Contenido de ">> \o req.url

\* request.author or "Extraido de web"
SimulatedAuthor(req) ==
    IF Truthy(req.author) THEN req.author ELSE <<"Extraido de web">>

UrlMetadata(req, now) ==
    [type |-> "url", title |-> SimulatedTitle(req), author |-> SimulatedAuthor(req),
     source |-> req.url, page |-> "Web", upload_time |-> now]

\* the handler never fetches the url: url_status, the answer the address would
\* give, is not read
UploadUrl(req, url_status) ==
    /\ program = "app"
    /\ clock < MaxClock
    /\ Len(chunks) + 1 <= MaxStore
    /\ chunks' = Append(chunks, <<"[Contenido simulado de ">> \o req.url \o <<"]">>)
    /\ metadata' = Append(metadata, UrlMetadata(req, clock + 1))
    /\ chunk_ids' = Append(chunk_ids, <<clock + 1, 1>>)
    /\ meta_ids' = Append(meta_ids, <<clock + 1, 1>>)
    /\ clock' = clock + 1
    /\ last' = Done("upload_url", req, [NoEnv EXCEPT !.url_status = url_status],
                    [metadata |-> [title |-> SimulatedTitle(req),
                                   author |-> SimulatedAuthor(req),
                                   url |-> req.url],
                     http |-> 200, status |-> "success",
                     message |-> <<"URL procesada: ">> \o req.url,
                     chunks_created |-> 1])
    /\ UNCHANGED <<program, pending, api_key, collection, ct>>

\* file.filename.replace('.pdf', '')
PdfTitle(filename) == SelectSeq(filename, LAMBDA t : t # ".pdf")

PdfChunk(file, i) ==
    <<"[Contenido del PDF ">> \o file.filename \o <<" - Chunk ", ToString(i + 1), "]">>

PdfMetadata(file, i, now) ==
    [type |-> "pdf", title |-> PdfTitle(file.filename), author |-> <<"Autor del PDF">>,
     source |-> file.filename, page |-> ToString(i + 1), upload_time |-> now]

\* max(1, file_size // 5000)
EstimatedChunks(file) == Max(1, file.size \div PdfChunkBytes)

UploadPdf(file) ==
    /\ program = "app"
    /\ clock < MaxClock
    /\ clock' = clock + 1
    /\ IF file.filename = None
       THEN \* None has no replace: AttributeError before the loop
            /\ UNCHANGED <<chunks, metadata, chunk_ids, meta_ids>>
            /\ last' = Done("upload_pdf", file, NoEnv, HttpError("AttributeError"))
       ELSE LET n == EstimatedChunks(file)
            IN  /\ Len(chunks) + n <= MaxStore
                /\ chunks' = chunks \o [k \in 1..n |-> PdfChunk(file, k - 1)]
                /\ metadata' = metadata \o
                                 [k \in 1..n |-> PdfMetadata(file, k - 1, clock + 1)]
                /\ chunk_ids' = chunk_ids \o [k \in 1..n |-> <<clock + 1, k>>]
                /\ meta_ids' = meta_ids \o [k \in 1..n |-> <<clock + 1, k>>]
                /\ last' = Done("upload_pdf", file, NoEnv,
                                [metadata |-> [title |-> PdfTitle(file.filename),
                                               author |-> <<"Autor del PDF">>,
                                               pages |-> n],
                                 http |-> 200, status |-> "success",
                                 message |-> <<"PDF procesado: ">> \o file.filename,
                                 chunks_created |-> n])
    /\ UNCHANGED <<program, pending, api_key, collection, ct>>

\* the iterations of `for i in range(estimated_chunks)` run before another
\* handler can run, were the event loop to switch after every iteration
PdfBurstOne(remaining) == Min(1, remaining)

\* the iterations of `for i in range(estimated_chunks)` run before another
\* handler can run: the loop body has no await, so all that remain
PdfBurst(remaining) == remaining

\* pending without its j-th frame
Resumed(j) == SubSeq(pending, 1, j - 1) \o SubSeq(pending, j + 1, Len(pending))

\* upload_pdf up to `contents = await file.read()`: the coroutine is suspended
\* and the event loop is free to run other handlers
UploadPdfAwait(file) ==
    /\ program = "app"
    /\ clock < MaxClock
    /\ clock' = clock + 1
    /\ pending' = Append(pending, [done |-> 0, file |-> file, call |-> clock + 1])
    /\ UNCHANGED <<program, api_key, chunks, metadata, chunk_ids, meta_ids,
                   collection, ct, last>>

\* upload_pdf from the return of `await file.read()` to the next point where
\* the event loop can switch
UploadPdfResume(j) ==
    /\ program = "app"
    /\ j \in 1..Len(pending)
    /\ LET file == pending[j].file
           call == pending[j].call
           done == pending[j].done
       IN  IF file.filename = None
           THEN \* None has no replace: AttributeError before the loop
                /\ UNCHANGED <<chunks, metadata, chunk_ids, meta_ids>>
                /\ pending' = Resumed(j)
                /\ last' = Done("upload_pdf", file, NoEnv, HttpError("AttributeError"))
           ELSE LET n == EstimatedChunks(file)
                    b == PdfBurst(n - done)
                IN  /\ Len(chunks) + b <= MaxStore
                    /\ chunks' = chunks \o [k \in 1..b |-> PdfChunk(file, done + k - 1)]
                    /\ metadata' = metadata \o
                                     [k \in 1..b |-> PdfMetadata(file, done + k - 1, clock)]
                    /\ chunk_ids' = chunk_ids \o [k \in 1..b |-> <<call, done + k>>]
                    /\ meta_ids' = meta_ids \o [k \in 1..b |-> <<call, done + k>>]
                    /\ pending' = IF done + b = n THEN Resumed(j)
                                  ELSE [pending EXCEPT ![j].done = done + b]
                    /\ last' = IF done + b = n
                               THEN Done("upload_pdf", file, NoEnv,
                                         [metadata |-> [title |-> PdfTitle(file.filename),
                                                        author |-> <<"Autor del PDF">>,
                                                        pages |-> n],
                                          http |-> 200, status |-> "success",
                                          message |-> <<"PDF procesado: ">> \o file.filename,
                                          chunks_created |-> n])
                               ELSE last
    /\ UNCHANGED <<program, api_key, clock, collection, ct>>

\* clear_rag that resets only the chunk list
ClearedStoreChunksOnly(st) ==
    [st EXCEPT !.chunks = << >>, !.chunk_ids = << >>]

\* rag_storage["chunks"] = []; rag_storage["metadata"] = []
ClearedStore(st) ==
    [st EXCEPT !.chunks = << >>, !.metadata = << >>,
               !.chunk_ids = << >>, !.meta_ids = << >>]

ClearRag ==
    /\ program = "app"
    /\ LET st == ClearedStore(Store(chunks, metadata, chunk_ids, meta_ids))
       IN  /\ chunks' = st.chunks
           /\ metadata' = st.metadata
           /\ chunk_ids' = st.chunk_ids
           /\ meta_ids' = st.meta_ids
    /\ last' = Done("clear_rag", << >>, NoEnv,
                    [http |-> 200, status |-> "success",
                     message |-> <<"RAG storage cleared">>])
    /\ UNCHANGED <<program, pending, api_key, clock, collection, ct>>

\* the body returned by rag_status for the store (c, m)
RagStatusBody(c, m) ==
    [http |-> 200, total_chunks |-> Len(c),
     sources |-> PySlice([k \in 1..Len(m) |->
                             [type |-> m[k].type, title |-> m[k].title,
                              author |-> m[k].author]],
                         0, PreviewLimit)]

RagStatus ==
    /\ program = "app"
    /\ last' = Done("rag_status", << >>, NoEnv, RagStatusBody(chunks, metadata))
    /\ UNCHANGED <<program, pending, api_key, storeVars, collection, ct>>

HealthCheck ==
    /\ program = "app"
    /\ last' = Done("health_check", << >>, NoEnv,
                    [http |-> 200, status |-> "healthy",
                     openai_configured |-> api_key, rag_chunks |-> Len(chunks)])
    /\ UNCHANGED <<program, pending, api_key, storeVars, collection, ct>>

-----------------------------------------------------------------------------
(* app.py: generate_response *)

RECURSIVE PyJoin(_, _)
\* sep.join(ss)
PyJoin(sep, ss) ==
    IF ss = << >> THEN << >>
    ELSE IF Len(ss) = 1 THEN ss[1]
    ELSE ss[1] \o sep \o PyJoin(sep, Tail(ss))

\* the style_prompts dict
StylePrompts ==
    [t \in {"natural", "scientific", "friendly_teacher", "child_5yo", "shakespeare",
            "wise_grandmother", "confused_robot", "philosopher", "salesperson",
            "storyteller", "comedian", "pirate", "chef"} |->
        IF t = "natural" THEN None ELSE <<"Responde como ", t>>]

\* style_prompts.get(style, None) where an unknown style gets the scientific persona
SystemMessageDefaultPersona(style) ==
    IF style \in DOMAIN StylePrompts THEN StylePrompts[style]
    ELSE StylePrompts["scientific"]

\* style_prompts.get(request.style, None)
SystemMessage(style) ==
    IF style \in DOMAIN StylePrompts THEN StylePrompts[style] ELSE None

\* the text the model answers to the messages: the same messages, the same text
Completion(messages) ==
    <<"completion(">>
      \o Concat([k \in 1..Len(messages) |->
                    <<messages[k].role, ":">> \o messages[k].content])
      \o <<")">>

\* one entry of context_text, for a zipped (chunk, meta)
ContextEntry(chunk, meta) ==
    <<"[Fuente: ">> \o Str(meta.title) \o <<" - ">> \o Str(meta.author)
       \o <<" - Pagina ", meta.page, "]\n">> \o chunk

SourceOf(meta) ==
    [type |-> meta.type, title |-> meta.title, author |-> meta.author,
     page |-> meta.page]

\* context_metadata = rag_storage["metadata"][:5]
ContextMetadata(m) == PySlice(m, 0, TopChunks)

\* except Exception as e: the soft failure of app.py
GenerateFailure(e, sources_used) ==
    [http |-> 200, sources |-> << >>,
     response |-> <<"Error al generar respuesta: ", e>>, chunks_used |-> 0]

\* generate_response of app.py on the store (c, m): the response, the messages
\* sent to the model and the reads of rag_storage, in order
GenerateApp(req, env, key, c, m) ==
    LET system_message == SystemMessage(req.style)
        rag == req.use_rag /\ c # << >>
        context_chunks == PySlice(c, 0, TopChunks)
        context_metadata == ContextMetadata(m)
        zipped == Min(Len(context_chunks), Len(context_metadata))
        context_text ==
            PyJoin(<<"\n\n">>, [k \in 1..zipped |->
                                  ContextEntry(context_chunks[k], context_metadata[k])])
        sources_used ==
            IF rag THEN [k \in 1..Len(context_metadata) |-> SourceOf(context_metadata[k])]
            ELSE << >>
        augmented_prompt ==
            IF rag
            THEN <<"Contexto proporcionado:\n">> \o context_text
                   \o <<"\n\nPregunta del usuario: ">> \o req.prompt
                   \o <<"\n\nPor favor, responde basandote en el contexto">>
            ELSE req.prompt
        messages ==
            (IF Truthy(system_message)
             THEN <<[role |-> "system", content |-> system_message]>> ELSE << >>)
            \o <<[role |-> "user", content |-> augmented_prompt]>>
        reads == IF ~req.use_rag THEN << >>
                 ELSE IF ~rag THEN <<"chunks">>
                 ELSE <<"chunks", "chunks", "metadata">>
    IN  IF ~key
        THEN [resp |-> [http |-> 200,
                        sources |-> << >>,
                        response |-> <<"[Modo de Prueba - OpenAI no configurado] Estilo: ",
                                       req.style, " Pregunta: ">> \o req.prompt, chunks_used |-> 0],
              sent |-> << >>, reads |-> << >>]
        ELSE IF env.api = "ok"
        THEN [resp |-> [http |-> 200, sources |-> sources_used,
                        response |-> Completion(messages), chunks_used |-> Len(sources_used)],
              sent |-> messages, reads |-> reads]
        ELSE [resp |-> GenerateFailure(env.api, sources_used),
              sent |-> messages, reads |-> reads]

GenerateRequest(prompt, style, use_rag) ==
    [style |-> style, use_rag |-> use_rag, prompt |-> prompt]

GenerateResponse(req, env) ==
    /\ program = "app"
    /\ LET g == GenerateApp(req, env, api_key, chunks, metadata)
       IN  last' = [op |-> "generate_response", req |-> req, env |-> env,
                    resp |-> g.resp, sent |-> g.sent, reads |-> g.reads]
    /\ UNCHANGED <<program, pending, api_key, storeVars, collection, ct>>

-----------------------------------------------------------------------------
(* utils/chroma.py *)

\* f"{source}_{i}"
ChunkId(source, i) == <<source, "_", ToString(i)>>

IdsOf(coll) == {coll[k].id : k \in 1..Len(coll)}

\* the documents store_chunks_in_chroma hands to collection.add
NewDocs(cs, source) ==
    [k \in 1..Len(cs) |->
        [source |-> source, id |-> ChunkId(source, k - 1), document |-> cs[k],
         chunk_index |-> k - 1]]

\* store_chunks_in_chroma(cs, source). collection.add is the library's: given an
\* identifier the collection already has, it raises, keeps both documents or
\* drops the new one, by version (add).
StoreChunksInChroma(coll, cs, source, add) ==
    LET docs == NewDocs(cs, source)
        dup == \E k \in 1..Len(docs) : docs[k].id \in IdsOf(coll)
    IN  IF cs = << >> THEN [collection |-> coll, error |-> "none"]
        ELSE IF dup /\ add = "raise"
        THEN [collection |-> coll, error |-> "IDAlreadyExistsError"]
        ELSE IF add = "skip"
        THEN [collection |-> coll \o SelectSeq(docs, LAMBDA d : d.id \notin IdsOf(coll)),
              error |-> "none"]
        ELSE [collection |-> coll \o docs, error |-> "none"]

Rotate(q, r) == [k \in 1..Len(q) |-> q[((k - 1 + r) % Len(q)) + 1]]

\* get_chunks_from_chroma(query, n_results = 5). collection.query is the
\* library's: it raises (query = "error", answered by []) or returns the
\* min(n_results, count) documents its similarity ranking puts first (rank).
GetChunksFromChroma(coll, query, rank) ==
    IF query = "error" \/ coll = << >> THEN << >>
    ELSE LET ranked == Rotate(coll, rank)
         IN  [k \in 1..Min(QueryResults, Len(coll)) |-> ranked[k].document]

\* clear_chroma_db: delete_collection, then create_collection
ClearChromaDb ==
    /\ program = "routes"
    /\ ct.pc = "idle"
    /\ collection' = << >>
    /\ last' = Done("clear_chroma_db", << >>, NoEnv, << >>)
    /\ UNCHANGED <<program, pending, api_key, storeVars, ct>>

-----------------------------------------------------------------------------
(* routes/upload-text.py *)

\* process_text: text.strip(), then chunk_text
RouteUploadTextCall(data) ==
    /\ program = "routes"
    /\ ct.pc = "idle"
    /\ ct' = ChunkTextCall("upload_text", PyStrip(data.text), data.chunk_size,
                           data.chunk_overlap)
    /\ UNCHANGED <<program, pending, api_key, storeVars, collection, last>>

\* chunk_text returns; store_chunks_in_chroma(chunks, source="text_upload")
RouteUploadTextReturn(add) ==
    /\ program = "routes"
    /\ ct.pc = "loop" /\ ct.caller = "upload_text"
    /\ ~(ct.start < Len(ct.text))
    /\ LET r == StoreChunksInChroma(collection, ct.chunks, "text_upload", add)
       IN  /\ Len(r.collection) <= MaxDocs
           /\ collection' = r.collection
           /\ last' = Done("route_upload_text",
                           [text |-> ct.text, chunk_size |-> ct.chunk_size,
                            chunk_overlap |-> ct.overlap],
                           [NoEnv EXCEPT !.add = add],
                           IF r.error # "none"
                           THEN [http |-> 200, status |-> "error", message |-> r.error]
                           ELSE [http |-> 200, status |-> "success",
                                 message |-> "Text processed and stored",
                                 chunks_created |-> Len(ct.chunks)])
    /\ ct' = NoCall
    /\ UNCHANGED <<program, pending, api_key, storeVars>>

-----------------------------------------------------------------------------
(* routes/generate.py, utils/model.py *)

\* the styles dict of apply_style_to_prompt, for the prompt
Styles(prompt) ==
    [t \in {"scientist", "teacher", "friendly", "neutral"} |->
        IF t = "neutral" THEN prompt ELSE <<"You are a ", t, ". ">> \o prompt]

\* styles.get(style, prompt)
ApplyStyleToPrompt(prompt, style) ==
    IF style \in DOMAIN Styles(prompt) THEN Styles(prompt)[style] ELSE prompt

\* generate_response_from_model: the text returned and the messages sent
GenerateResponseFromModel(prompt, cs, api) ==
    LET context == <<"\n\nRelevant Context:\n">>
                     \o PyJoin(<<"\n">>, PySlice(cs, 0, ModelChunks))
        full == IF cs # << >> THEN prompt \o context ELSE prompt
        messages == <<[role |-> "system",
                       content |-> <<"You are an educational AI assistant.">>],
                      [role |-> "user", content |-> full]>>
    IN  [text |-> IF api = "ok" THEN Completion(messages)
                  ELSE <<"Error generating response: ", api>>,
         sent |-> messages]

\* generate_response of routes/generate.py on the collection coll
GenerateRoute(data, env, coll) ==
    LET styled_prompt == ApplyStyleToPrompt(data.prompt, data.style)
        cs == IF data.use_rag THEN GetChunksFromChroma(coll, env.query, env.rank)
              ELSE << >>
        g == GenerateResponseFromModel(styled_prompt, cs, env.api)
    IN  [resp |-> [http |-> 200, response |-> g.text, chunks_used |-> Len(cs)],
         sent |-> g.sent,
         reads |-> IF data.use_rag THEN <<"query">> ELSE << >>]

RouteGenerateResponse(data, env) ==
    /\ program = "routes"
    /\ ct.pc = "idle"
    /\ LET g == GenerateRoute(data, env, collection)
       IN  last' = [op |-> "generate_response", req |-> data, env |-> env,
                    resp |-> g.resp, sent |-> g.sent, reads |-> g.reads]
    /\ UNCHANGED <<program, pending, api_key, storeVars, collection, ct>>

-----------------------------------------------------------------------------
(* The two programs *)

Titles == {<<"T">>, None}

AppTexts == {<< >>, <<"a", "b", "c">>}
AppSizes == 0..2
AppOverlaps == -1..1
Urls == {<<"http://u">>}
UrlStatuses == {"200", "404", "timeout"}
PdfNames == {<<"f", ".pdf">>, None}
PdfSizes == {0, 6 * PdfChunkBytes}
AppStyleTags == {"natural", "pirate", "neutral"}
RouteStyleTags == {"neutral", "scientist", "natural"}
Prompts == {<<"q">>}
ApiOutcomes == {"ok", "APIError"}
RouteTexts == {<< >>, <<" ", "a", "b">>}
RouteSizes == 1..2
RouteOverlaps == 0..1
AddOutcomes == {"raise", "coexist", "skip"}
Ranks == 0..1

Init ==
    /\ program \in {"app", "routes"}
    /\ api_key \in (IF program = "app" THEN BOOLEAN ELSE {FALSE})
    /\ chunks = << >> /\ metadata = << >>
    /\ chunk_ids = << >> /\ meta_ids = << >>
    /\ clock = 0
    /\ collection = << >>
    /\ ct = NoCall
    /\ pending = << >>
    /\ last = NoLast

AppUploadText ==
    /\ program = "app"
    /\ \E text \in AppTexts, chunk_size \in AppSizes, overlap \in AppOverlaps,
          title \in Titles :
          UploadText(TextRequest(text, chunk_size, overlap, title))

Next ==
    \/ AppUploadText
    \/ \E url \in Urls, title \in Titles, url_status \in UrlStatuses :
          UploadUrl(UrlRequest(url, title), url_status)
    \/ \E filename \in PdfNames, size \in PdfSizes :
          UploadPdf([filename |-> filename, size |-> size])
    \/ ClearRag
    \/ RagStatus
    \/ HealthCheck
    \/ \E prompt \in Prompts, style \in AppStyleTags, use_rag \in BOOLEAN,
          api \in ApiOutcomes :
          GenerateResponse(GenerateRequest(prompt, style, use_rag),
                           [NoEnv EXCEPT !.api = api])
    \/ \E text \in RouteTexts, chunk_size \in RouteSizes, overlap \in RouteOverlaps :
          RouteUploadTextCall([text |-> text, chunk_size |-> chunk_size,
                               chunk_overlap |-> overlap])
    \/ (program = "routes" /\ ChunkTextIter)
    \/ \E add \in AddOutcomes : RouteUploadTextReturn(add)
    \/ \E prompt \in Prompts, style \in RouteStyleTags, use_rag \in BOOLEAN,
          api \in ApiOutcomes, query \in {"ok", "error"}, rank \in Ranks :
          RouteGenerateResponse(GenerateRequest(prompt, style, use_rag),
                                [NoEnv EXCEPT !.api = api, !.query = query,
                                              !.rank = rank])
    \/ ClearChromaDb

Spec == Init /\ [][Next]_vars

-----------------------------------------------------------------------------
(* The chunker program: both chunking loops applied to drawn inputs *)

InitChunk ==
    /\ program = "chunker"
    /\ api_key = FALSE
    /\ chunks = << >> /\ metadata = << >>
    /\ chunk_ids = << >> /\ meta_ids = << >>
    /\ clock = 0
    /\ collection = << >>
    /\ \E text \in SeqsUpTo(Alphabet, MaxLen) :
       \E chunk_size \in (0 - MaxNeg)..MaxParam, overlap \in (0 - MaxNeg)..MaxParam :
           ct = ChunkTextCall("chunker", text, chunk_size, overlap)
    /\ pending = << >>
    /\ last = NoLast

\* upload_text of app.py called with the drawn text, chunk_size and chunk_overlap
ChunkerUploadText ==
    /\ program = "chunker"
    /\ last.op = "none"
    /\ UploadText(TextRequest(ct.text, ct.chunk_size, ct.overlap, <<"T">>))

NextChunk == ChunkTextIter \/ ChunkTextReturn \/ ChunkerUploadText

SpecChunk == InitChunk /\ [][NextChunk]_vars

-----------------------------------------------------------------------------
(* app.py served by one event loop: handlers interleave at await points only *)

ConcSizes == {0, 2}
ConcOverlaps == -1..0
ConcPdfSizes == {0, 2 * PdfChunkBytes}

InitConc ==
    /\ program = "app"
    /\ api_key = TRUE
    /\ chunks = << >> /\ metadata = << >>
    /\ chunk_ids = << >> /\ meta_ids = << >>
    /\ clock = 0
    /\ collection = << >>
    /\ ct = NoCall
    /\ pending = << >>
    /\ last = NoLast

NextConc ==
    \/ \E filename \in PdfNames, size \in ConcPdfSizes :
          UploadPdfAwait([filename |-> filename, size |-> size])
    \/ \E j \in 1..MaxClock : UploadPdfResume(j)
    \/ \E chunk_size \in ConcSizes, overlap \in ConcOverlaps :
          UploadText(TextRequest(<<"a", "b", "c">>, chunk_size, overlap, <<"T">>))
    \/ \E url \in Urls : UploadUrl(UrlRequest(url, None), "200")
    \/ ClearRag
    \/ RagStatus
    \/ \E api \in ApiOutcomes :
          GenerateResponse(GenerateRequest(<<"q">>, "natural", TRUE),
                           [NoEnv EXCEPT !.api = api])

SpecConc == InitConc /\ [][NextConc]_vars

-----------------------------------------------------------------------------
(* C2, C3: the chunker *)

\* the sliding-window sequence of section 4.1, written with SubSeq
Windows(text, S, O) ==
    [i \in 1..CeilDiv(Len(text), S - O) |->
        SubSeq(text, (i - 1) * (S - O) + 1, Min((i - 1) * (S - O) + S, Len(text)))]

IsChunking(r, text, S, O) ==
    /\ r = Windows(text, S, O)
    /\ \A i \in 1..Len(r) : Len(r[i]) <= S
    /\ Len(r) = CeilDiv(Len(text), S - O)
    /\ (text = << >> => Len(r) = 0) /\ (text # << >> => Len(r) >= 1)
    /\ Concat([i \in 1..Len(r) |-> SubSeq(r[i], 1, Min(S - O, Len(r[i])))]) = text

\* C2: for 0 <= O < S the chunks returned by chunk_text, and the chunks that the
\* loop of upload_text creates and stores, are the windows text[i*(S-O) : i*(S-O)+S],
\* i = 0 .. ceil(L/(S-O))-1: each of length <= S, ceil(L/(S-O)) of them, and the
\* first S-O characters of each joined give the text back.
C2_SlidingWindow ==
    /\ (ct.pc = "done" /\ 0 <= ct.overlap /\ ct.overlap < ct.chunk_size)
          => IsChunking(ct.chunks, ct.text, ct.chunk_size, ct.overlap)
    /\ (last.op = "upload_text" /\ 0 <= last.req.chunk_overlap
                                /\ last.req.chunk_overlap < last.req.chunk_size)
          => /\ last.resp.http = 200
             /\ last.resp.chunks_created = Len(chunks)
             /\ IsChunking(chunks, last.req.text, last.req.chunk_size,
                           last.req.chunk_overlap)

C2_Witness ==
    /\ ct.pc = "done" /\ last.op = "upload_text"
    /\ 0 < ct.overlap /\ ct.overlap < ct.chunk_size
    /\ Len(ct.chunks) >= 2 /\ Len(chunks) >= 2
    /\ Len(ct.chunks[Len(ct.chunks)]) < ct.chunk_size

\* C3: with chunk_overlap >= chunk_size (chunk_size a positive integer, as
\* section 4.1 has it) and a non-empty text the chunking is
\* rejected or the overlap clamped: an iteration of the chunk_text loop moves
\* start forward (the loop ends), and an upload_text that is not rejected
\* creates at least one chunk.
C3_RejectedOrClamped ==
    [][ /\ (ct.pc = "loop" /\ ct'.pc = "loop" /\ ct' # ct
              /\ ct.chunk_size >= 1
              /\ ct.overlap >= ct.chunk_size /\ ct.text # << >>)
           => ct'.start > ct.start
        /\ (last'.op = "upload_text" /\ last' # last
              /\ last'.req.chunk_size >= 1
              /\ last'.req.chunk_overlap >= last'.req.chunk_size
              /\ last'.req.text # << >>)
           => (last'.resp.http # 200 \/ last'.resp.chunks_created >= 1)
      ]_vars

-----------------------------------------------------------------------------
(* C4 - C6: the generation endpoints *)

Generated == last.op = "generate_response"

Diagnostics == {"Error al generar respuesta: ", "Error generating response: "}

\* C4: when the call to the model fails, the generation handler returns
\* normally a diagnostic message with chunks_used = 0.
C4_SoftFailureZeroChunks ==
    (Generated /\ last.sent # << >> /\ last.env.api # "ok")
    => /\ last.resp.http = 200
       /\ Head(last.resp.response) \in Diagnostics
       /\ last.resp.chunks_used = 0

ContextMarkers == {"Contexto proporcionado:\n", "\n\nRelevant Context:\n"}

Tokens(q) == {q[k] : k \in 1..Len(q)}

\* the user turn carries the prompt and no retrieved context
Unaugmented(messages, prompt) ==
    LET user == messages[Len(messages)].content
    IN  /\ Tokens(user) \cap ContextMarkers = {}
        /\ Len(user) >= Len(prompt)
        /\ SubSeq(user, Len(user) - Len(prompt) + 1, Len(user)) = prompt

\* C5: a generation with use_rag = false does not read the store, sends the
\* model the prompt without context, and returns chunks_used = 0 and sources = [].
C5_NoRagNoStore ==
    (Generated /\ ~last.req.use_rag)
    => /\ last.reads = << >>
       /\ (last.sent # << >> => Unaugmented(last.sent, last.req.prompt))
       /\ last.resp.chunks_used = 0
       /\ "sources" \in DOMAIN last.resp
       /\ last.resp.sources = << >>

\* the tag table of the running program and its neutral tag
KnownTags == IF program = "app" THEN DOMAIN StylePrompts ELSE DOMAIN Styles(<< >>)

NeutralTag == IF program = "app" THEN "natural" ELSE "neutral"

\* the last generation request run again, on the same store and with the same
\* answers of the model and of the collection, with the neutral tag
NeutralRun ==
    LET req == [last.req EXCEPT !.style = NeutralTag]
    IN  IF program = "app"
        THEN GenerateApp(req, last.env, api_key, chunks, metadata)
        ELSE GenerateRoute(req, last.env, collection)

UnknownTagged == Generated /\ last.req.style \notin KnownTags

PersonaTokens == {"Responde como ", "You are a "}

\* C6 as claimed: with a tag outside the table no persona instruction is sent
\* and the result is the result for the neutral tag.
C6_UnknownAsNeutral ==
    UnknownTagged
    => /\ \A k \in 1..Len(last.sent) :
             Tokens(last.sent[k].content) \cap PersonaTokens = {}
       /\ last.resp = NeutralRun.resp

WithoutText(resp) == [f \in DOMAIN resp \ {"response"} |-> resp[f]]

\* C6: with a tag outside the table the messages sent to the model are those
\* sent for the neutral tag and carry no persona of the style table, chunks_used
\* and sources are those of the neutral tag, and so is the response text
\* whenever the model is called.
C6_UnknownAsNeutralWhenCalled ==
    UnknownTagged
    => /\ last.sent = NeutralRun.sent
       /\ \A k \in 1..Len(last.sent) :
             Tokens(last.sent[k].content) \cap PersonaTokens = {}
       /\ WithoutText(last.resp) = WithoutText(NeutralRun.resp)
       /\ (last.sent # << >> => last.resp = NeutralRun.resp)

C6_Witness ==
    /\ program = "app" /\ api_key
    /\ UnknownTagged
    /\ last.req.use_rag /\ Len(chunks) >= 1 /\ Len(metadata) >= 1
    /\ last.env.api = "ok"
    /\ last.resp.chunks_used >= 1

-----------------------------------------------------------------------------
(* C1, C7 - C10: the in-memory store of app.py *)

\* C1: rag_storage["chunks"] and rag_storage["metadata"] have the same length
\* and metadata[k] is the record created together with chunks[k].
C1_ChunkMetadataPaired ==
    /\ Len(chunks) = Len(metadata)
    /\ chunk_ids = meta_ids

\* C7: a successful generation of app.py with use_rag uses the first
\* min(5, total) stored chunks: chunks_used = min(5, total) and sources[k] is the
\* title/author/page/type of the metadata of the k-th stored chunk.
C7_FirstFiveInOrder ==
    (program = "app" /\ last.op = "generate_response" /\ last.req.use_rag
       /\ api_key /\ last.env.api = "ok")
    => /\ last.resp.chunks_used = Min(TopChunks, Len(chunks))
       /\ Len(last.resp.sources) = Min(TopChunks, Len(chunks))
       /\ \A k \in 1..Len(last.resp.sources) :
             /\ k <= Len(metadata)
             /\ meta_ids[k] = chunk_ids[k]
             /\ last.resp.sources[k] = SourceOf(metadata[k])

\* C8: clear_rag leaves no chunk and no metadata, a rag_status that follows it
\* reports total_chunks = 0 and no sources, a second clear_rag changes nothing;
\* clear_chroma_db leaves the collection empty.
C8_ClearEmptiesIdempotent ==
    [][ /\ (last'.op = "clear_rag" /\ last' # last)
           => (chunks' = << >> /\ metadata' = << >>)
        /\ (last.op = "clear_rag" /\ last'.op = "rag_status")
           => (last'.resp.total_chunks = 0 /\ last'.resp.sources = << >>)
        /\ last.op = "clear_rag"
           => /\ RagStatusBody(chunks, metadata).total_chunks = 0
              /\ RagStatusBody(chunks, metadata).sources = << >>
              /\ ClearedStore(Store(chunks, metadata, chunk_ids, meta_ids))
                   = Store(chunks, metadata, chunk_ids, meta_ids)
        /\ (last.op = "clear_rag" /\ last'.op = "clear_rag")
           => <<chunks', metadata'>> = <<chunks, metadata>>
        /\ (last'.op = "clear_chroma_db" /\ last' # last) => collection' = << >>
      ]_vars

C8_Witness ==
    /\ last.op = "clear_rag"
    /\ clock >= 1
    /\ chunks = << >> /\ metadata = << >>

\* C9: an upload_url for an address whose fetch fails yields an error response
\* and leaves the store as it was.
C9_FetchFailureStoreUnchanged ==
    [][ (clock' = clock + 1 /\ last'.op = "upload_url"
           /\ last'.env.url_status # "200")
        => /\ last'.resp.http # 200
           /\ chunks' = chunks /\ metadata' = metadata
      ]_vars

\* C10: a step that changes the store is a clear_rag that empties it or an
\* ingestion call that appends: the old chunks and metadata are prefixes of the
\* new ones. generate_response, rag_status and health_check change nothing.
C10_AppendOnlyUntilClear ==
    [][ (chunks' # chunks \/ metadata' # metadata)
        => \/ /\ last'.op = "clear_rag"
              /\ chunks' = << >> /\ metadata' = << >>
           \/ /\ last'.op \in {"upload_text", "upload_url", "upload_pdf"}
              /\ clock' = clock + 1
              /\ IsPrefix(chunks, chunks') /\ IsPrefix(metadata, metadata')
      ]_vars

C10_Witness ==
    /\ last.op \in {"upload_text", "upload_url", "upload_pdf"}
    /\ clock = 2 /\ Len(chunks) >= 2
    /\ chunk_ids[1][1] = 1 /\ chunk_ids[Len(chunks)][1] = 2
    /\ Len(metadata) = Len(chunks)

-----------------------------------------------------------------------------
(* C11: identifiers handed to the collection *)

\* the identifiers store_chunks_in_chroma(cs, source) hands to collection.add
HandedIds(cs, source) == {NewDocs(cs, source)[k].id : k \in 1..Len(cs)}

\* C11: every chunk handed to the collection carries an identifier that no
\* other chunk handed to it carries: the identifiers of one call are pairwise
\* different and none of them is the identifier of a document handed earlier
\* and still in the collection.
C11_IdentifiersNeverRepeat ==
    [][ (ct.pc = "loop" /\ ct.caller = "upload_text" /\ ct'.pc = "idle")
        => /\ Cardinality(HandedIds(ct.chunks, "text_upload")) = Len(ct.chunks)
           /\ HandedIds(ct.chunks, "text_upload") \cap IdsOf(collection) = {}
      ]_vars

-----------------------------------------------------------------------------
(* C12: handlers interleaved on the event loop *)

\* the entries one call stamped stand in one run of the list, numbered from 1 in
\* the order the call produced them
OneRunPerCall(ids) ==
    \A i \in 1..Len(ids) :
        /\ ids[i][2] > 1 => (i > 1 /\ ids[i - 1] = <<ids[i][1], ids[i][2] - 1>>)
        /\ \A j \in (i + 1)..Len(ids) :
               ids[j][1] = ids[i][1] => j - i = ids[j][2] - ids[i][2]

\* new is old followed by the n entries of one call, numbered 1..n
WholeBlock(old, new, n) ==
    /\ Len(new) = Len(old) + n
    /\ SubSeq(new, 1, Len(old)) = old
    /\ \E c \in 1..MaxClock + 1 : \A k \in 1..n : new[Len(old) + k] = <<c, k>>

\* the user message and the sources a generate_response builds from the first
\* five chunks and the first five metadata of the one store (c, m)
SnapshotOf(c, m, req) ==
    LET cc == SubSeq(c, 1, Min(TopChunks, Len(c)))
        mm == SubSeq(m, 1, Min(TopChunks, Len(m)))
        z == Min(Len(cc), Len(mm))
    IN  [sources |-> [k \in 1..Len(mm) |-> SourceOf(mm[k])],
         content |-> <<"Contexto proporcionado:\n">>
                       \o PyJoin(<<"\n\n">>, [k \in 1..z |-> ContextEntry(cc[k], mm[k])])
                       \o <<"\n\nPregunta del usuario: ">> \o req.prompt
                       \o <<"\n\nPor favor, responde basandote en el contexto">>]

\* C12: with the handlers of app.py interleaved at their await points, after
\* every step the chunks and the metadata entries that one ingestion call
\* appended stand in one contiguous run of their list in the order the call
\* produced them (no other call's appends between them, no clear_rag cutting the
\* run); an upload_pdf that returns success has appended its whole block in the
\* step that returns; and a generate_response that uses the store builds its
\* context and its sources from the first five chunks and the first five
\* metadata of the one store state it ran in, which it leaves unchanged.
C12_BlocksContiguousUnderInterleaving ==
    [][ /\ OneRunPerCall(chunk_ids') /\ OneRunPerCall(meta_ids')
        /\ (Len(pending') < Len(pending) /\ last'.resp.http = 200)
              => /\ WholeBlock(chunk_ids, chunk_ids', last'.resp.chunks_created)
                 /\ WholeBlock(meta_ids, meta_ids', last'.resp.chunks_created)
        /\ (last' # last /\ last'.op = "generate_response" /\ chunks # << >>)
              => /\ storeVars' = storeVars
                 /\ last'.sent[Len(last'.sent)].content
                      = SnapshotOf(chunks, metadata, last'.req).content
                 /\ last'.env.api = "ok"
                      => last'.resp.sources
                           = SnapshotOf(chunks, metadata, last'.req).sources
      ]_vars

\* an upload_pdf was suspended at its await while a later call appended its
\* block, then resumed and appended its own block of two; a generate_response
\* then read the store
C12_Witness ==
    /\ \E i, j \in 1..Len(chunk_ids) :
          /\ i < j
          /\ chunk_ids[i][1] > chunk_ids[j][1]
          /\ chunk_ids[j][2] = 2
    /\ last.op = "generate_response"
    /\ Len(last.resp.sources) >= 3

====
